---- MODULE Spec2Model ----
(***************************************************************************)
(* The PDF editing job / version pipeline of src/src/routers/pdf.py with   *)
(* the processors of src/src/processors/pdf_ops.py and pdf_preview.py.     *)
(*                                                                         *)
(* One job id is followed: its entry in the key-value store, its folder on *)
(* disk, the wall clock, and the response of the last request.  Job ids    *)
(* are uuid4 values, so an id is drawn by one create request only, and     *)
(* that request finds neither a store entry nor a folder for it.  The page  *)
(* geometry of the overlay tools (_safe_page_wh, _safe_box_xywh) is a pure *)
(* function of the page and is followed for one page.                      *)
(***************************************************************************)
EXTENDS Integers, Sequences, FiniteSets, TLC

(***************************************************************************)
(* Bounds of the model.                                                    *)
(***************************************************************************)
\* the clock runs over 0..MaxTime
MaxTime == 2
\* number of uploaded watermark images kept in the job folder
MaxSideFiles == 1
\* number of apply requests of one job that write to the store or the folder
MaxEdits == 5
\* number of preview files kept in the job folder
MaxPreviews == 2
\* number of writing apply requests of one job in a session with reads
MaxReadEdits == 3
\* number of requests whose store and disk operations interleave with
\* those of other requests
MaxFlights == 2
\* number of writing apply requests of one job when requests interleave
MaxRaceEdits == 2
\* the same, in a session that runs up to the version limit
MaxLimitEdits == 4

(***************************************************************************)
(* Configuration of src/src/routers/pdf.py.  TTL_SECONDS, MAX_FILES and    *)
(* MAX_PAGES are read from the environment of the deployment; the values   *)
(* here are those of a small deployment.                                   *)
(***************************************************************************)
TTL_SECONDS == 2
MAX_FILES == 2
MAX_PAGES == 3
MAX_VERSIONS == 5

Max(a, b) == IF a >= b THEN a ELSE b

(***************************************************************************)
(* File contents.  A PDF is its page sequence and the sequence of tools    *)
(* applied to it; "partial" is a file whose write was cut short, "junk"    *)
(* an upload that is no PDF, "img" a watermark image, "png" a rendered     *)
(* page.                                                                   *)
(***************************************************************************)
Pdf(pages, ops) == [kind |-> "pdf", pages |-> pages, ops |-> ops]
Partial == [kind |-> "partial", pages |-> <<>>, ops |-> <<>>]
Junk == [kind |-> "junk", pages |-> <<>>, ops |-> <<>>]
Img == [kind |-> "img", pages |-> <<>>, ops |-> <<>>]
\* the PNG the rasterizer makes of one page of a PDF at a resolution
Png(content, page, dpi) ==
    [kind |-> "png", pages |-> <<content.pages[page]>>, ops |-> content.ops,
     dpi |-> dpi]
Nothing == [kind |-> "none", pages |-> <<>>, ops |-> <<>>]

DocA == <<"A1", "A2">>
DocB == <<"B1", "B2", "B3">>
DocLong == <<"L1", "L2", "L3", "L4">>

(***************************************************************************)
(* Uploads of a create request.  A client file name is the sequence of     *)
(* its path components; size is "ok" or "big" (more than MAX_FILE_SIZE).   *)
(***************************************************************************)
Upload(name, size, data) == [filename |-> name, size |-> size, data |-> data]

FileNames == {<<"a.pdf">>, <<"docs", "a.pdf">>, <<"b.pdf">>, <<>>, <<"v1.pdf">>}

GoodUploads == {Upload(n, "ok", Pdf(d, <<>>)) : n \in FileNames, d \in {DocA, DocB}}

BadUploads ==
    { Upload(<<"a.pdf">>, "big", Pdf(DocA, <<>>)),
      Upload(<<"a.pdf">>, "ok", Junk),
      Upload(<<"a.pdf">>, "ok", Partial),
      Upload(<<"a.pdf">>, "ok", Pdf(DocLong, <<>>)) }

Uploads == GoodUploads \cup BadUploads

\* the upload lists of the create requests of CreateSpec
AllUploadLists ==
    {<<>>} \cup {<<u>> : u \in Uploads}
           \cup {<<u, w>> : u \in Uploads, w \in GoodUploads}
           \cup {<<u, u, u>> : u \in {Upload(<<"a.pdf">>, "ok", Pdf(DocA, <<>>))}}

\* the upload lists of the create requests of Spec
UploadLists ==
    { <<>>,
      <<Upload(<<"a.pdf">>, "ok", Pdf(DocA, <<>>))>>,
      <<Upload(<<"a.pdf">>, "ok", Junk)>>,
      <<Upload(<<"a.pdf">>, "ok", Pdf(DocA, <<>>)),
        Upload(<<"a.pdf">>, "ok", Pdf(DocA, <<>>)),
        Upload(<<"a.pdf">>, "ok", Pdf(DocA, <<>>))>> }

(***************************************************************************)
(* Paths inside the job folder.                                            *)
(***************************************************************************)
\* os.path.basename(name or "").strip(), or the fallback
Blank == {"", " "}
safe_filename(name, fallback) ==
    LET base == IF name = <<>> THEN "" ELSE name[Len(name)]
    IN  IF base \in Blank THEN fallback ELSE base

version_path(v) == "v" \o ToString(v) \o ".pdf"

upload_path(i, name) == safe_filename(name, "upload_" \o ToString(i) \o ".pdf")

side_path(k) == "wm_" \o ToString(k) \o "_image"

preview_path(version, page, dpi) ==
    "previews/v" \o ToString(version) \o "_p" \o ToString(page)
                 \o "_dpi" \o ToString(dpi) \o ".png"

(***************************************************************************)
(* The folder: a function from file names to contents.                     *)
(***************************************************************************)
NoFiles == <<>>
Write(files, path, content) == (path :> content) @@ files
Exists(files, path) == path \in DOMAIN files

(***************************************************************************)
(* The job record.                                                         *)
(***************************************************************************)
Version(v) == [v |-> v, path |-> version_path(v)]

NoJob ==
    [createdAt |-> 0, expiresAt |-> 0, status |-> "none", cursor |-> 0,
     versions |-> <<>>, lastTool |-> "none", lastError |-> "none"]

active_version(job) == job.versions[job.cursor].v
active_path(job) == job.versions[job.cursor].path

(***************************************************************************)
(* Page geometry.  A page carries a /CropBox and a /MediaBox entry; an     *)
(* entry is absent, cannot be resolved (page.get raises), or is an array   *)
(* whose elements are numbers or objects that float() rejects.             *)
(***************************************************************************)
Num(v) == [numeric |-> TRUE, val |-> v]
NotNum == [numeric |-> FALSE, val |-> 0]

Arr(a) == [kind |-> "array", arr |-> a]
Absent == [kind |-> "absent", arr |-> <<>>]
Raises == [kind |-> "raises", arr |-> <<>>]

Boxes ==
    { Absent, Raises,
      Arr(<<>>),
      Arr(<<Num(0), Num(0), Num(200), Num(100)>>),
      Arr(<<Num(10), Num(20), Num(310), Num(420)>>),
      Arr(<<Num(200), Num(100), Num(0), Num(0)>>),
      Arr(<<Num(0), Num(0), Num(200)>>),
      Arr(<<Num(0), Num(0), NotNum, Num(100)>>),
      Arr(<<Num(50), Num(0), Num(50), Num(100)>>),
      Arr(<<Num(0), Num(70), Num(200), Num(70)>>) }

Pages == [CropBox : Boxes, MediaBox : Boxes]

\* the fallback page size, ISO A4 in points
FallbackW == 595
FallbackH == 842

Abs(x) == IF x < 0 THEN 0 - x ELSE x
Min(a, b) == IF a <= b THEN a ELSE b

\* page.get(NameObject(name)) inside try / except: None when the entry is
\* absent or the lookup raises
PageGet(page, name) == IF page[name].kind = "array" THEN page[name] ELSE Absent

\* the array of a box read as four floats: <<x0, y0, w, h>>, or <<>> when
\* the array has not four elements, an element is no number, or the width
\* or the height is not positive
BoxXYWH(box) ==
    IF Len(box.arr) # 4 THEN <<>>
    ELSE IF \E i \in 1..4 : ~box.arr[i].numeric THEN <<>>
    ELSE LET x0 == box.arr[1].val
             y0 == box.arr[2].val
             x1 == box.arr[3].val
             y1 == box.arr[4].val
             w == Abs(x1 - x0)
             h == Abs(y1 - y0)
         IN  IF w <= 0 \/ h <= 0 THEN <<>>
             ELSE <<Min(x0, x1), Min(y0, y1), w, h>>

\* _safe_page_wh of pdf_ops.py: <<w, h>>
safe_page_wh(page) ==
    LET crop == PageGet(page, "CropBox")
        box == IF crop = Absent THEN PageGet(page, "MediaBox") ELSE crop
    IN  IF box = Absent THEN <<FallbackW, FallbackH>>
        ELSE IF BoxXYWH(box) = <<>> THEN <<FallbackW, FallbackH>>
        ELSE <<BoxXYWH(box)[3], BoxXYWH(box)[4]>>

\* a or b of Python: None and the empty array are false
PyOr(a, b) == IF a = Absent \/ Len(a.arr) = 0 THEN b ELSE a

\* _safe_box_xywh of pdf_ops_new.py: <<x0, y0, w, h>>
safe_box_xywh(page, prefer_crop) ==
    LET crop == PageGet(page, "CropBox")
        media == PageGet(page, "MediaBox")
        box == IF prefer_crop THEN PyOr(crop, media) ELSE PyOr(media, crop)
    IN  IF box = Absent THEN <<0, 0, FallbackW, FallbackH>>
        ELSE IF BoxXYWH(box) = <<>> THEN <<0, 0, FallbackW, FallbackH>>
        ELSE BoxXYWH(box)

\* the geometry of a page: the page, whether it has been resolved, and the
\* results of _safe_page_wh and of _safe_box_xywh with and without the
\* preference for the crop box
Geom(page, resolved, wh, crop, media) ==
    [page |-> page, resolved |-> resolved, wh |-> wh, crop |-> crop,
     media |-> media]
NoPage == [CropBox |-> Absent, MediaBox |-> Absent]
Unresolved(page) == Geom(page, FALSE, <<>>, <<>>, <<>>)
NoGeom == Unresolved(NoPage)

VARIABLES
    now,      \* now_ts()
    store,    \* the store entry of the job: [present, rec, ex]
    folder,   \* the job folder: [exists, files]
    resp,     \* the response of the last request: [op, code]
    body,     \* what the last response carries: [file, job, pages, rendered]
    issued,   \* whether a create request has drawn the job id
    edits,    \* number of apply requests of the job that wrote something
    trail,    \* the requests since the last successful apply, see Trail
    flight,   \* the requests in flight: what each has loaded and where it is
    geom      \* the page whose geometry is resolved, and the resolved boxes

vars == <<now, store, folder, resp, body, issued, edits, trail, flight, geom>>

NoEntry == [present |-> FALSE, rec |-> NoJob, ex |-> 0]
NoFolder == [exists |-> FALSE, files |-> NoFiles]
Resp(op, code) == [op |-> op, code |-> code]

\* The body of a response: the file it serves, the job record its fields
\* are taken from, the page count it reports, and whether the external
\* rasterizer was invoked to make it.
Body(file, job, pages, rendered) ==
    [file |-> file, job |-> job, pages |-> pages, rendered |-> rendered]
NoBody == Body(Nothing, NoJob, 0, FALSE)
\* the body of a response model filled from the job record
JobBody(job) == Body(Nothing, job, 0, FALSE)

(***************************************************************************)
(* trail follows a successful apply that is followed by a successful undo  *)
(* and then a successful redo: phase is "A" after the apply, "AU" after    *)
(* the undo, "AUR" after the redo and "-" otherwise; rec and fld are the   *)
(* stored record and the folder right after the apply.                     *)
(***************************************************************************)
Trail(phase, rec, fld) == [phase |-> phase, rec |-> rec, fld |-> fld]
NoTrail == Trail("-", NoJob, NoFolder)

\* A request in flight: pc is "loaded" once load_job has returned, "saving"
\* once the tool has run, "deleting" once delete_job has deleted the key,
\* "done" once an apply has saved and answered, and "idle" when the handler
\* has not run or has ended otherwise; job is the record the handler holds,
\* base the record it loaded, code its answer.
Flights == 1..MaxFlights
Flight(pc, op, tool, job, base, code) ==
    [pc |-> pc, op |-> op, tool |-> tool, job |-> job, base |-> base,
     code |-> code]
Idle == Flight("idle", "none", "none", NoJob, NoJob, "none")

Init ==
    /\ trail = NoTrail
    /\ flight = [p \in Flights |-> Idle]
    /\ now = 0
    /\ store = NoEntry
    /\ folder = NoFolder
    /\ resp = Resp("none", "none")
    /\ body = NoBody
    /\ issued = FALSE
    /\ edits = 0
    /\ geom = NoGeom

(***************************************************************************)
(* The key-value store.  A key set with ex = ttl at second s is there      *)
(* before second s + ttl and gone after it; within second s + ttl it is    *)
(* there or gone (now_ts() truncates to whole seconds).  store.ex is       *)
(* s + ttl, and Tick drops the entry when the clock passes it.             *)
(***************************************************************************)
StoreGet(visible) ==
    IF store.present /\ (now < store.ex \/ visible) THEN store ELSE NoEntry

\* mutant: every save starts a new time to live
save_job_Refresh(job) == [present |-> TRUE, rec |-> job, ex |-> now + TTL_SECONDS]

\* save_job
save_job(job) ==
    [present |-> TRUE, rec |-> job, ex |-> now + Max(1, job.expiresAt - now)]

\* safe_remove_job_folder
safe_remove_job_folder == NoFolder

\* mutant: a job is still loaded in the second it expires
LoadCode_Late(entry) ==
    IF ~entry.present THEN "JOB_NOT_FOUND"
    ELSE IF entry.rec.expiresAt < now THEN "JOB_EXPIRED"
    ELSE "ok"

\* load_job: "ok", "JOB_NOT_FOUND" or "JOB_EXPIRED"
LoadCode(entry) ==
    IF ~entry.present THEN "JOB_NOT_FOUND"
    ELSE IF entry.rec.expiresAt <= now THEN "JOB_EXPIRED"
    ELSE "ok"

\* The store and the folder after a load_job that failed with code.  A key
\* that r.get did not find is not there: it never was, or the store has
\* evicted it in its last second, and then it stays gone.
StoreAfterFailedLoad(code) == NoEntry
FolderAfterFailedLoad(code) ==
    IF code = "JOB_EXPIRED" THEN safe_remove_job_folder ELSE folder

(***************************************************************************)
(* create_job                                                              *)
(***************************************************************************)
\* save_upload_validated: the file is opened for writing and filled until
\* the size limit is passed
SavedContent(u) == IF u.size = "big" THEN Partial ELSE u.data

\* the first check an upload fails: "ok" or the error code ("INTERNAL_ERROR"
\* is an exception no handler catches: PdfReader on a broken PDF)
UploadCode(u) ==
    IF u.size = "big" THEN "FILE_TOO_LARGE"
    ELSE IF u.data.kind = "junk" THEN "UNSUPPORTED_TYPE"
    ELSE IF u.data.kind # "pdf" THEN "INTERNAL_ERROR"
    ELSE IF Len(u.data.pages) > MAX_PAGES THEN "TOO_MANY_PAGES"
    ELSE "ok"

\* the uploads the loop of create_job reaches: all of them, or those up to
\* and including the first that fails a check
RECURSIVE Reached(_, _)
Reached(files, i) ==
    IF i > Len(files) THEN 0
    ELSE IF UploadCode(files[i]) # "ok" THEN 1
    ELSE 1 + Reached(files, i + 1)

RECURSIVE SaveUploads(_, _, _, _)
SaveUploads(fs, files, i, n) ==
    IF i > n THEN fs
    ELSE SaveUploads(Write(fs, upload_path(i - 1, files[i].filename),
                           SavedContent(files[i])),
                     files, i + 1, n)

saved_paths(files) == [i \in 1..Len(files) |-> upload_path(i - 1, files[i].filename)]

\* merge_pdfs: every input is read, in order, and the pages are written out
RECURSIVE MergePages(_, _, _)
MergePages(fs, paths, i) ==
    IF i > Len(paths) THEN <<>>
    ELSE fs[paths[i]].pages \o MergePages(fs, paths, i + 1)

merge_pdfs(fs, inputs, out_path) ==
    Write(fs, out_path, Pdf(MergePages(fs, inputs, 1), <<>>))

\* copy_as_result; shutil.copyfile raises SameFileError when src and dst are
\* one file, which CreateJob answers with "INTERNAL_ERROR"
copy_as_result(fs, src, dst) == Write(fs, dst, fs[src])

\* mutant: the cursor of a new job is a 0-based index
NewJob_ZeroCursor ==
    [createdAt |-> now, expiresAt |-> now + TTL_SECONDS, status |-> "done",
     cursor |-> 0, versions |-> <<Version(1)>>, lastTool |-> "create",
     lastError |-> "none"]

NewJob ==
    [createdAt |-> now, expiresAt |-> now + TTL_SECONDS, status |-> "done",
     cursor |-> 1, versions |-> <<Version(1)>>, lastTool |-> "create",
     lastError |-> "none"]

CreateJob(files) ==
    /\ ~store.present
    /\ ~folder.exists
    /\ ~issued
    /\ IF files = <<>> THEN
           /\ resp' = Resp("create", "NO_FILES")
           /\ UNCHANGED <<now, store, folder, issued, edits>>
       ELSE IF Len(files) > MAX_FILES THEN
           /\ resp' = Resp("create", "TOO_MANY_FILES")
           /\ UNCHANGED <<now, store, folder, issued, edits>>
       ELSE
           LET n == Reached(files, 1)
               fs == SaveUploads(NoFiles, files, 1, n)
               bad == UploadCode(files[n])
               paths == saved_paths(files)
               v1 == version_path(1)
           IN  IF bad # "ok" THEN
                   /\ folder' = [exists |-> TRUE, files |-> fs]
                   /\ resp' = Resp("create", bad)
                   /\ issued' = TRUE
                   /\ UNCHANGED <<now, store, edits>>
               ELSE IF Len(paths) = 1 /\ paths[1] = v1 THEN
                   /\ folder' = [exists |-> TRUE, files |-> fs]
                   /\ resp' = Resp("create", "INTERNAL_ERROR")
                   /\ issued' = TRUE
                   /\ UNCHANGED <<now, store, edits>>
               ELSE
                   /\ folder' = [exists |-> TRUE,
                                 files |-> IF Len(paths) = 1
                                           THEN copy_as_result(fs, paths[1], v1)
                                           ELSE merge_pdfs(fs, paths, v1)]
                   /\ store' = save_job(NewJob)
                   /\ resp' = Resp("create", "OK")
                   /\ issued' = TRUE
                   /\ edits' = 0
                   /\ UNCHANGED now

\* what a request other than a read answers: the fields of the record it
\* has saved, or an error
Answer == IF resp'.code = "OK" /\ store'.present THEN JobBody(store'.rec) ELSE NoBody

Create ==
    \E files \in UploadLists :
        CreateJob(files) /\ trail' = NoTrail /\ body' = Answer /\ UNCHANGED <<flight, geom>>

CreateAny ==
    \E files \in AllUploadLists :
        CreateJob(files) /\ trail' = NoTrail /\ body' = Answer /\ UNCHANGED <<flight, geom>>

(***************************************************************************)
(* apply_tool                                                              *)
(***************************************************************************)
Tools == {"merge", "rotate", "watermark_image"}
OverlayTools == {"watermark_text", "watermark_image", "draw_signature"}

\* the options form field: not JSON, JSON that is no object, an object the
\* tool's options model rejects, an object it accepts
OptionKinds == {"badjson", "nonobject", "invalid", "ok"}
\* the page option
PageInputs == {0, 1, 3}
\* the image form field: absent, an image, an image above MAX_IMAGE_SIZE
ImageKinds == {"none", "ok", "big"}
\* what the environment does to the processing: nothing, an error before
\* the output file is opened, an error while it is written
Faults == {"none", "read", "write"}

Req(tool, options, page, image, fault) ==
    [tool |-> tool, options |-> options, page |-> page, image |-> image,
     fault |-> fault]

\* the image a well-formed request of the tool carries
ImageOf(tool) == IF tool = "watermark_image" THEN "ok" ELSE "none"

\* The apply requests: the well-formed request of every tool, and the
\* requests that differ from it in the options, the page, the image or the
\* fault of the environment.
ApplyRequests ==
    {Req(t, o, 1, ImageOf(t), "none") : t \in Tools, o \in OptionKinds}
        \cup {Req(t, "ok", p, ImageOf(t), "none") :
                 t \in Tools \cap OverlayTools, p \in PageInputs}
        \cup {Req(t, "ok", 1, ImageOf(t), f) : t \in Tools, f \in Faults}
        \cup {Req(t, o, 1, i, "none") :
                 t \in Tools \cap {"watermark_image"}, o \in {"ok", "invalid"},
                 i \in ImageKinds}

\* mutant: the redo tail is kept
TruncateRedoTail_Keep(job) == job

\* if undo was used then apply new action => truncate redo tail
TruncateRedoTail(job) ==
    IF job.cursor < Len(job.versions)
    THEN [job EXCEPT !.versions = SubSeq(job.versions, 1, job.cursor)]
    ELSE job

\* mutant: the limit check is off by one
VersionLimitReached_OffByOne(job) == Len(job.versions) > MAX_VERSIONS

VersionLimitReached(job) == Len(job.versions) >= MAX_VERSIONS

\* mutant: the number of the last version is issued again
new_v_Same(job) == job.versions[Len(job.versions)].v

new_v(job) == job.versions[Len(job.versions)].v + 1

\* mutant: a failure of the tool is not recorded
Failed_Unrecorded(job, tool, e) == job

\* the record apply_tool saves after the tool has run
Applied(job, v, tool) ==
    [job EXCEPT !.versions = Append(job.versions, Version(v)),
                !.cursor = Len(job.versions) + 1,
                !.lastTool = tool,
                !.lastError = "none"]

\* the record apply_tool saves after the tool has thrown e
Failed(job, tool, e) ==
    [job EXCEPT !.status = "failed", !.lastTool = tool, !.lastError = e]

SideCount(files) == Cardinality({k \in 1..(MaxSideFiles + 1) : Exists(files, side_path(k))})

\* the output of a tool on a PDF
Transform(content, tool) == Pdf(content.pages, Append(content.ops, tool))

\* PdfReader(input_pdf): "ok", or the error it raises
ReadCode(fld, src) ==
    IF ~fld.exists \/ ~Exists(fld.files, src) THEN "FileNotFoundError"
    ELSE IF fld.files[src].kind # "pdf" THEN "PdfReadError"
    ELSE "ok"

\* the page check of the overlay tools
InvalidPage(content, page) == page - 1 < 0 \/ page - 1 >= Len(content.pages)

\* The tool call of apply_tool on folder fld: [code, err, fld], where code
\* is "OK", the code of the HTTP error raised, or "PROCESSING_FAILED" with
\* err the exception caught by "except Exception".
Out(code, e, fld) == [code |-> code, err |-> e, fld |-> fld]

\* mutant: the tool reads the file of the first version
Process_FromFirst(fld, src, dst, tool, page, fault) ==
    LET rc == ReadCode(fld, src)
    IN  IF rc # "ok" THEN Out("PROCESSING_FAILED", rc, fld)
        ELSE IF tool \in OverlayTools /\ InvalidPage(fld.files[src], page)
             THEN Out("BAD_OPTIONS", "none", fld)
        ELSE IF fault = "read" THEN Out("PROCESSING_FAILED", "RenderError", fld)
        ELSE IF fault = "write"
             THEN Out("PROCESSING_FAILED", "OSError",
                      [fld EXCEPT !.files = Write(fld.files, dst, Partial)])
        ELSE Out("OK", "none",
                 [fld EXCEPT !.files = Write(fld.files, dst,
                                             Transform(fld.files[version_path(1)], tool))])

Process(fld, src, dst, tool, page, fault) ==
    LET rc == ReadCode(fld, src)
    IN  IF rc # "ok" THEN Out("PROCESSING_FAILED", rc, fld)
        ELSE IF tool \in OverlayTools /\ InvalidPage(fld.files[src], page)
             THEN Out("BAD_OPTIONS", "none", fld)
        ELSE IF fault = "read" THEN Out("PROCESSING_FAILED", "RenderError", fld)
        ELSE IF fault = "write"
             THEN Out("PROCESSING_FAILED", "OSError",
                      [fld EXCEPT !.files = Write(fld.files, dst, Partial)])
        ELSE Out("OK", "none",
                 [fld EXCEPT !.files = Write(fld.files, dst,
                                             Transform(fld.files[src], tool))])

Validated(fld, src, dst, tool, options, page, fault) ==
    IF options = "nonobject" THEN Out("PROCESSING_FAILED", "TypeError", fld)
    ELSE IF options = "invalid" THEN Out("BAD_OPTIONS", "none", fld)
    ELSE Process(fld, src, dst, tool, page, fault)

RunTool(fld, src, dst, tool, options, page, image, fault) ==
    IF tool = "merge" THEN Out("BAD_OPTIONS", "none", fld)
    ELSE IF tool # "watermark_image"
         THEN Validated(fld, src, dst, tool, options, page, fault)
    ELSE IF image = "none" THEN Out("NO_IMAGE", "none", fld)
    ELSE IF ~fld.exists THEN Out("PROCESSING_FAILED", "FileNotFoundError", fld)
    ELSE LET img_path == side_path(SideCount(fld.files) + 1)
             withImg == [fld EXCEPT !.files =
                            Write(fld.files, img_path,
                                  IF image = "big" THEN Partial ELSE Img)]
         IN  IF image = "big" THEN Out("FILE_TOO_LARGE", "none", withImg)
             ELSE Validated(withImg, src, dst, tool, options, page, fault)

ApplyTool(tool, options, page, image, fault, visible) ==
    LET entry == StoreGet(visible)
        lc == LoadCode(entry)
        job == TruncateRedoTail(entry.rec)
    IN  IF lc # "ok" THEN
            /\ store' = StoreAfterFailedLoad(lc)
            /\ folder' = FolderAfterFailedLoad(lc)
            /\ resp' = Resp("apply", lc)
            /\ UNCHANGED <<now, issued, edits>>
        ELSE IF options = "badjson" THEN
            /\ resp' = Resp("apply", "BAD_OPTIONS")
            /\ UNCHANGED <<now, store, folder, issued, edits>>
        ELSE IF VersionLimitReached(job) THEN
            /\ resp' = Resp("apply", "VERSION_LIMIT")
            /\ UNCHANGED <<now, store, folder, issued, edits>>
        ELSE
            LET src == active_path(job)
                v == new_v(job)
                dst == version_path(v)
                out == RunTool(folder, src, dst, tool, options, page, image, fault)
            IN  /\ tool = "watermark_image" /\ image # "none"
                      => SideCount(folder.files) < MaxSideFiles
                /\ folder' = out.fld
                /\ store' = IF out.code = "OK" THEN save_job(Applied(job, v, tool))
                            ELSE IF out.code = "PROCESSING_FAILED"
                                 THEN save_job(Failed(job, tool, out.err))
                            ELSE store
                /\ resp' = Resp("apply", out.code)
                /\ edits' = IF store' # store \/ folder' # folder
                            THEN edits + 1 ELSE edits
                /\ edits' <= MaxEdits
                /\ UNCHANGED <<now, issued>>

\* whether a key in its last second is still there matters in that second only
Visible == IF store.present /\ now = store.ex THEN BOOLEAN ELSE {TRUE}

Apply ==
    \E r \in ApplyRequests, visible \in Visible :
        /\ ApplyTool(r.tool, r.options, r.page, r.image, r.fault, visible)
        /\ trail' = IF resp'.code = "OK" THEN Trail("A", store'.rec, folder')
                     ELSE NoTrail
        /\ body' = Answer
        /\ UNCHANGED <<flight, geom>>

(***************************************************************************)
(* undo, redo                                                              *)
(***************************************************************************)
\* mutant: undo without the check of the cursor
UndoJob_NoGuard(job) == [job EXCEPT !.cursor = job.cursor - 1]

\* mutant: undo drops the version it leaves
UndoJob_Drop(job) ==
    IF job.cursor > 1
    THEN [job EXCEPT !.cursor = job.cursor - 1,
                     !.versions = SubSeq(job.versions, 1, job.cursor - 1)]
    ELSE job

\* mutant: redo without the check of the cursor
RedoJob_NoGuard(job) == [job EXCEPT !.cursor = job.cursor + 1]

UndoJob(job) == IF job.cursor > 1 THEN [job EXCEPT !.cursor = job.cursor - 1] ELSE job

RedoJob(job) ==
    IF job.cursor < Len(job.versions) THEN [job EXCEPT !.cursor = job.cursor + 1]
    ELSE job

\* load_job, then the cursor move and its save_job when the cursor moved
Move(op, moved(_), visible) ==
    LET entry == StoreGet(visible)
        lc == LoadCode(entry)
    IN  IF lc # "ok" THEN
            /\ store' = StoreAfterFailedLoad(lc)
            /\ folder' = FolderAfterFailedLoad(lc)
            /\ resp' = Resp(op, lc)
            /\ UNCHANGED <<now, issued, edits>>
        ELSE
            /\ store' = IF moved(entry.rec) # entry.rec
                        THEN save_job(moved(entry.rec)) ELSE store
            /\ resp' = Resp(op, "OK")
            /\ UNCHANGED <<now, folder, issued, edits>>

Undo ==
    \E visible \in Visible :
        /\ Move("undo", UndoJob, visible)
        /\ trail' = IF resp'.code = "OK" /\ trail.phase = "A"
                     THEN [trail EXCEPT !.phase = "AU"] ELSE NoTrail
        /\ body' = Answer
        /\ UNCHANGED <<flight, geom>>

Redo ==
    \E visible \in Visible :
        /\ Move("redo", RedoJob, visible)
        /\ trail' = IF resp'.code = "OK" /\ trail.phase = "AU"
                     THEN [trail EXCEPT !.phase = "AUR"] ELSE NoTrail
        /\ body' = Answer
        /\ UNCHANGED <<flight, geom>>

(***************************************************************************)
(* status, download, page_info, preview                                    *)
(***************************************************************************)
\* a load_job that raised lc
FailedLoad(op, lc) ==
    /\ store' = StoreAfterFailedLoad(lc)
    /\ folder' = FolderAfterFailedLoad(lc)
    /\ resp' = Resp(op, lc)
    /\ body' = NoBody

\* os.path.exists(job.active_path)
ActiveExists(job) == folder.exists /\ Exists(folder.files, active_path(job))

StatusJob(visible) ==
    LET entry == StoreGet(visible)
        lc == LoadCode(entry)
    IN  /\ IF lc # "ok" THEN FailedLoad("status", lc)
           ELSE /\ resp' = Resp("status", "OK")
                /\ body' = JobBody(entry.rec)
                /\ UNCHANGED <<store, folder>>
        /\ UNCHANGED <<now, issued, edits>>

\* mutant: download serves the file of the newest version
DownloadJob_Newest(visible) ==
    LET entry == StoreGet(visible)
        lc == LoadCode(entry)
        job == entry.rec
        last == job.versions[Len(job.versions)].path
    IN  /\ IF lc # "ok" THEN FailedLoad("download", lc)
           ELSE /\ resp' = Resp("download", "OK")
                /\ body' = Body(folder.files[last], job, 0, FALSE)
                /\ UNCHANGED <<store, folder>>
        /\ UNCHANGED <<now, issued, edits>>

DownloadJob(visible) ==
    LET entry == StoreGet(visible)
        lc == LoadCode(entry)
        job == entry.rec
    IN  /\ IF lc # "ok" THEN FailedLoad("download", lc)
           ELSE IF ~ActiveExists(job) THEN
                /\ resp' = Resp("download", "RESULT_MISSING")
                /\ body' = NoBody
                /\ UNCHANGED <<store, folder>>
           ELSE /\ resp' = Resp("download", "OK")
                /\ body' = Body(folder.files[active_path(job)], job, 0, FALSE)
                /\ UNCHANGED <<store, folder>>
        /\ UNCHANGED <<now, issued, edits>>

\* PdfReader(path) of page_info is outside any try: its error is a 500
PageInfoJob(visible) ==
    LET entry == StoreGet(visible)
        lc == LoadCode(entry)
        job == entry.rec
    IN  /\ IF lc # "ok" THEN FailedLoad("page_info", lc)
           ELSE IF ~ActiveExists(job) THEN
                /\ resp' = Resp("page_info", "RESULT_MISSING")
                /\ body' = NoBody
                /\ UNCHANGED <<store, folder>>
           ELSE IF ReadCode(folder, active_path(job)) # "ok" THEN
                /\ resp' = Resp("page_info", "INTERNAL_ERROR")
                /\ body' = NoBody
                /\ UNCHANGED <<store, folder>>
           ELSE /\ resp' = Resp("page_info", "OK")
                /\ body' = Body(Nothing, job,
                                Len(folder.files[active_path(job)].pages), FALSE)
                /\ UNCHANGED <<store, folder>>
        /\ UNCHANGED <<now, issued, edits>>

\* the dpi query parameter, clamped
DpiInputs == {50}
\* the page path parameter
PreviewPages == {0, 1}
ClampDpi(dpi) == IF dpi < 72 THEN 72 ELSE IF dpi > 220 THEN 220 ELSE dpi
\* what the rasterizer does: renders, fails before it opens the output, or
\* fails (or is killed at the timeout) with the output cut short
RenderFaults == {"none", "fail", "cut"}

PreviewPaths ==
    {preview_path(v, p, ClampDpi(d)) :
        v \in 1..MAX_VERSIONS, p \in PreviewPages, d \in DpiInputs}
PreviewCount(files) == Cardinality(DOMAIN files \cap PreviewPaths)

\* render_pdf_page_to_png: the folder after it, and whether it raised
render_pdf_page_to_png(fld, input_pdf, out_png, page, dpi, fault) ==
    IF fault = "fail" THEN fld
    ELSE [fld EXCEPT !.files =
             Write(fld.files, out_png,
                   IF fault = "cut" THEN Partial
                   ELSE Png(fld.files[input_pdf], page, dpi))]

\* mutant: the page is rendered on every request
PreviewPage_NoCache(page, dpiIn, fault, visible) ==
    LET entry == StoreGet(visible)
        lc == LoadCode(entry)
        job == entry.rec
        dpi == ClampDpi(dpiIn)
        src_pdf == active_path(job)
        out_png == preview_path(active_version(job), page, dpi)
    IN  /\ IF lc # "ok" THEN FailedLoad("preview", lc)
           ELSE IF ~ActiveExists(job) THEN
                /\ resp' = Resp("preview", "RESULT_MISSING")
                /\ body' = NoBody
                /\ UNCHANGED <<store, folder>>
           ELSE IF ReadCode(folder, src_pdf) # "ok" THEN
                /\ resp' = Resp("preview", "PDF_READ_FAILED")
                /\ body' = NoBody
                /\ UNCHANGED <<store, folder>>
           ELSE IF page < 1 \/ page > Len(folder.files[src_pdf].pages) THEN
                /\ resp' = Resp("preview", "BAD_OPTIONS")
                /\ body' = NoBody
                /\ UNCHANGED <<store, folder>>
           ELSE /\ PreviewCount(folder.files) < MaxPreviews \/ Exists(folder.files, out_png)
                /\ folder' = render_pdf_page_to_png(folder, src_pdf, out_png,
                                                    page, dpi, fault)
                /\ resp' = Resp("preview",
                                IF fault = "none" THEN "OK" ELSE "PREVIEW_FAILED")
                /\ body' = IF fault = "none"
                           THEN Body(folder'.files[out_png], job, 0, TRUE)
                           ELSE Body(Nothing, NoJob, 0, TRUE)
                /\ UNCHANGED store
        /\ UNCHANGED <<now, issued, edits>>

PreviewPage(page, dpiIn, fault, visible) ==
    LET entry == StoreGet(visible)
        lc == LoadCode(entry)
        job == entry.rec
        dpi == ClampDpi(dpiIn)
        src_pdf == active_path(job)
        out_png == preview_path(active_version(job), page, dpi)
    IN  /\ IF lc # "ok" THEN FailedLoad("preview", lc)
           ELSE IF ~ActiveExists(job) THEN
                /\ resp' = Resp("preview", "RESULT_MISSING")
                /\ body' = NoBody
                /\ UNCHANGED <<store, folder>>
           ELSE IF ReadCode(folder, src_pdf) # "ok" THEN
                /\ resp' = Resp("preview", "PDF_READ_FAILED")
                /\ body' = NoBody
                /\ UNCHANGED <<store, folder>>
           ELSE IF page < 1 \/ page > Len(folder.files[src_pdf].pages) THEN
                /\ resp' = Resp("preview", "BAD_OPTIONS")
                /\ body' = NoBody
                /\ UNCHANGED <<store, folder>>
           ELSE IF Exists(folder.files, out_png) THEN
                \* cache: if exists, return immediately
                /\ resp' = Resp("preview", "OK")
                /\ body' = Body(folder.files[out_png], job, 0, FALSE)
                /\ UNCHANGED <<store, folder>>
           ELSE /\ PreviewCount(folder.files) < MaxPreviews
                /\ folder' = render_pdf_page_to_png(folder, src_pdf, out_png,
                                                    page, dpi, fault)
                /\ resp' = Resp("preview",
                                IF fault = "none" THEN "OK" ELSE "PREVIEW_FAILED")
                /\ body' = IF fault = "none"
                           THEN Body(folder'.files[out_png], job, 0, TRUE)
                           ELSE Body(Nothing, NoJob, 0, TRUE)
                /\ UNCHANGED store
        /\ UNCHANGED <<now, issued, edits>>

\* a read keeps the trail unless it has removed the job or written a file
TrailAfterRead ==
    IF store' = store /\ folder' = folder THEN trail ELSE NoTrail

Status ==
    \E visible \in Visible :
        StatusJob(visible) /\ trail' = TrailAfterRead /\ UNCHANGED <<flight, geom>>

Download ==
    \E visible \in Visible :
        DownloadJob(visible) /\ trail' = TrailAfterRead /\ UNCHANGED <<flight, geom>>

PageInfo ==
    \E visible \in Visible :
        PageInfoJob(visible) /\ trail' = TrailAfterRead /\ UNCHANGED <<flight, geom>>

Preview ==
    \E page \in PreviewPages, dpi \in DpiInputs, fault \in RenderFaults,
       visible \in Visible :
        /\ PreviewPage(page, dpi, fault, visible)
        /\ trail' = TrailAfterRead
        /\ UNCHANGED <<flight, geom>>

(***************************************************************************)
(* delete_job                                                              *)
(***************************************************************************)
\* mutant: nothing is removed when the store has no entry
DeleteJob_IfPresent ==
    /\ store' = NoEntry
    /\ folder' = IF store.present THEN safe_remove_job_folder ELSE folder
    /\ resp' = Resp("delete", "OK")
    /\ body' = NoBody
    /\ trail' = NoTrail
    /\ UNCHANGED <<now, issued, edits, flight, geom>>

DeleteJob ==
    /\ store' = NoEntry
    /\ folder' = safe_remove_job_folder
    /\ resp' = Resp("delete", "OK")
    /\ body' = NoBody
    /\ trail' = NoTrail
    /\ UNCHANGED <<now, issued, edits, flight, geom>>

\* the clock is counted from the first request that leaves something behind;
\* the store drops the entry when its time to live has run out, which ends
\* the trail
Tick ==
    /\ now < MaxTime
    /\ store.present \/ folder.exists
    /\ now' = now + 1
    /\ store' = IF store.present /\ now' > store.ex THEN NoEntry ELSE store
    /\ trail' = IF store' = store THEN trail ELSE NoTrail
    /\ UNCHANGED <<folder, resp, body, issued, edits, flight, geom>>

(***************************************************************************)
(* Requests in flight.  A handler runs up to its next await on the store   *)
(* (r.get, r.set, r.delete) and other handlers run in between: an apply is *)
(* its load_job, then the tool call on the folder, then its save_job; an   *)
(* undo or redo is its load_job, then its save_job; a delete is its        *)
(* r.delete, then the removal of the folder.                               *)
(***************************************************************************)
\* the first store operation of a request: r.get of load_job, or the
\* r.get and r.delete of delete_job
BeginFlight(p, op, tool, visible) ==
    LET entry == StoreGet(visible)
        lc == LoadCode(entry)
        f == Flight("idle", op, tool, NoJob, NoJob, "none")
    IN  /\ flight[p].pc \in {"idle", "done"}
        /\ issued
        /\ IF op = "delete" THEN
               /\ store' = NoEntry
               /\ flight' = [flight EXCEPT ![p] = [f EXCEPT !.pc = "deleting"]]
               /\ UNCHANGED <<folder, resp, body>>
           ELSE IF lc # "ok" THEN
               /\ FailedLoad(op, lc)
               /\ flight' = [flight EXCEPT ![p] = Idle]
           ELSE
               /\ flight' = [flight EXCEPT ![p] =
                                Flight("loaded", op, tool, entry.rec, entry.rec, "none")]
               /\ UNCHANGED <<store, folder, resp, body>>
        /\ UNCHANGED <<now, issued, edits>>

\* apply_tool from the return of load_job to its save_job or its error
WorkFlight(p) ==
    LET f == flight[p]
        job == TruncateRedoTail(f.job)
        v == new_v(job)
        out == RunTool(folder, active_path(job), version_path(v), f.tool,
                       "ok", 1, "none", "none")
    IN  /\ f.pc = "loaded" /\ f.op = "apply"
        /\ IF VersionLimitReached(job) THEN
               /\ resp' = Resp("apply", "VERSION_LIMIT")
               /\ body' = NoBody
               /\ flight' = [flight EXCEPT ![p] = Idle]
               /\ UNCHANGED folder
           ELSE IF out.code = "OK" THEN
               /\ folder' = out.fld
               /\ flight' = [flight EXCEPT ![p] =
                                [f EXCEPT !.pc = "saving", !.code = "OK",
                                          !.job = Applied(job, v, f.tool)]]
               /\ UNCHANGED <<resp, body>>
           ELSE IF out.code = "PROCESSING_FAILED" THEN
               /\ folder' = out.fld
               /\ flight' = [flight EXCEPT ![p] =
                                [f EXCEPT !.pc = "saving", !.code = out.code,
                                          !.job = Failed(job, f.tool, out.err)]]
               /\ UNCHANGED <<resp, body>>
           ELSE
               /\ folder' = out.fld
               /\ resp' = Resp("apply", out.code)
               /\ body' = NoBody
               /\ flight' = [flight EXCEPT ![p] = Idle]
        /\ edits' = IF folder' # folder THEN edits + 1 ELSE edits
        /\ UNCHANGED <<now, store, issued>>

\* mutant: the save appends the new version to the record the store holds
\* at the time of the save
SaveFlight_Reload(p) ==
    LET f == flight[p]
        cur == IF store.present /\ f.code = "OK"
               THEN Applied(store.rec, new_v(store.rec), f.tool) ELSE f.job
    IN  /\ f.pc = "saving"
        /\ store' = save_job(cur)
        /\ resp' = Resp("apply", f.code)
        /\ body' = IF f.code = "OK" THEN JobBody(cur) ELSE NoBody
        /\ flight' = [flight EXCEPT ![p] = [f EXCEPT !.pc = "done"]]
        /\ UNCHANGED <<now, folder, issued, edits>>

\* the save_job of apply_tool and its answer
SaveFlight(p) ==
    LET f == flight[p]
    IN  /\ f.pc = "saving"
        /\ store' = save_job(f.job)
        /\ resp' = Resp("apply", f.code)
        /\ body' = IF f.code = "OK" THEN JobBody(f.job) ELSE NoBody
        /\ flight' = [flight EXCEPT ![p] = [f EXCEPT !.pc = "done"]]
        /\ UNCHANGED <<now, folder, issued, edits>>

\* mutant: undo and redo write the new cursor into the record the store
\* holds at the time of the save
MoveFlight_CursorOnly(p) ==
    LET f == flight[p]
        moved == IF f.op = "undo" THEN UndoJob(f.job) ELSE RedoJob(f.job)
    IN  /\ f.pc = "loaded" /\ f.op \in {"undo", "redo"}
        /\ store' = IF moved # f.job /\ store.present
                    THEN save_job([store.rec EXCEPT !.cursor = moved.cursor])
                    ELSE store
        /\ resp' = Resp(f.op, "OK")
        /\ body' = JobBody(moved)
        /\ flight' = [flight EXCEPT ![p] = Idle]
        /\ UNCHANGED <<now, folder, issued, edits>>

\* undo and redo from the return of load_job: the cursor move, its save_job
\* and the answer
MoveFlight(p) ==
    LET f == flight[p]
        moved == IF f.op = "undo" THEN UndoJob(f.job) ELSE RedoJob(f.job)
    IN  /\ f.pc = "loaded" /\ f.op \in {"undo", "redo"}
        /\ store' = IF moved # f.job THEN save_job(moved) ELSE store
        /\ resp' = Resp(f.op, "OK")
        /\ body' = JobBody(moved)
        /\ flight' = [flight EXCEPT ![p] = Idle]
        /\ UNCHANGED <<now, folder, issued, edits>>

\* delete_job after its r.delete: the folder is removed
RemoveFlight(p) ==
    LET f == flight[p]
    IN  /\ f.pc = "deleting"
        /\ folder' = safe_remove_job_folder
        /\ resp' = Resp("delete", "OK")
        /\ body' = NoBody
        /\ flight' = [flight EXCEPT ![p] = Idle]
        /\ UNCHANGED <<now, store, issued, edits>>

\* the requests that start in flight: <<operation, tool>>
RaceKinds == {<<"apply", "rotate">>, <<"undo", "none">>, <<"redo", "none">>}
SlowKinds == {<<"apply", "rotate">>, <<"undo", "none">>}
HalfKinds == {<<"apply", "rotate">>, <<"delete", "none">>}

RaceBegin ==
    \E p \in Flights, k \in RaceKinds, visible \in Visible :
        BeginFlight(p, k[1], k[2], visible) /\ trail' = NoTrail /\ UNCHANGED geom

\* a request that starts when no other is in flight: the client sends its
\* slow requests one after the other
NoneInFlight == \A q \in Flights : flight[q].pc \in {"idle", "done"}

SlowBegin ==
    \E k \in SlowKinds, visible \in Visible :
        /\ NoneInFlight
        /\ BeginFlight(1, k[1], k[2], visible)
        /\ trail' = NoTrail
        /\ UNCHANGED geom

HalfBegin ==
    \E k \in HalfKinds, visible \in Visible :
        /\ NoneInFlight
        /\ BeginFlight(1, k[1], k[2], visible)
        /\ trail' = NoTrail
        /\ UNCHANGED geom

Work ==
    \E p \in Flights :
        WorkFlight(p) /\ edits' <= MaxRaceEdits /\ trail' = NoTrail /\ UNCHANGED geom

\* a request that starts in the first handler that is free
FirstFree(p) ==
    /\ flight[p].pc \in {"idle", "done"}
    /\ \A q \in Flights : q < p => flight[q].pc \notin {"idle", "done"}

\* the version list is within one version of the limit
NearLimit == store.present /\ Len(store.rec.versions) >= MAX_VERSIONS - 1

LimitBegin ==
    \E p \in Flights, k \in RaceKinds, visible \in Visible :
        /\ NearLimit
        /\ FirstFree(p)
        /\ BeginFlight(p, k[1], k[2], visible)
        /\ trail' = NoTrail
        /\ UNCHANGED geom

\* the tool call of an apply in flight, in a session that runs up to the
\* version limit
LimitWork ==
    \E p \in Flights :
        WorkFlight(p) /\ edits' <= MaxLimitEdits /\ trail' = NoTrail /\ UNCHANGED geom

Save == \E p \in Flights : SaveFlight(p) /\ trail' = NoTrail /\ UNCHANGED geom

MoveSave == \E p \in Flights : MoveFlight(p) /\ trail' = NoTrail /\ UNCHANGED geom

Remove == \E p \in Flights : RemoveFlight(p) /\ trail' = NoTrail /\ UNCHANGED geom

Next == Create \/ Apply \/ Undo \/ Redo \/ DeleteJob \/ Tick

Spec == Init /\ [][Next]_vars

\* the create requests with every upload list, for the claims about create_job
CreateNext == CreateAny \/ DeleteJob \/ Tick

CreateSpec == Init /\ [][CreateNext]_vars

\* The requests of an editing session with its reads, all within the
\* lifetime of the job: the apply requests
\* are a rotation, a text watermark and a merge.
ReadRequests ==
    { Req("rotate", "ok", 1, "none", "none"),
      Req("watermark_text", "ok", 1, "none", "none"),
      Req("merge", "ok", 1, "none", "none") }

ReadApply ==
    \E r \in ReadRequests, visible \in Visible :
        /\ ApplyTool(r.tool, r.options, r.page, r.image, r.fault, visible)
        /\ trail' = IF resp'.code = "OK" THEN Trail("A", store'.rec, folder')
                     ELSE NoTrail
        /\ body' = Answer
        /\ UNCHANGED <<flight, geom>>
        /\ edits' <= MaxReadEdits

ReadNext ==
    \/ Create \/ ReadApply \/ Undo \/ Redo \/ DeleteJob
    \/ Status \/ Download \/ PageInfo \/ Preview

ReadSpec == Init /\ [][ReadNext]_vars

\* The requests over the lifetime of a job, the clock running: the apply
\* requests are a rotation.
LifetimeRequests == {Req("rotate", "ok", 1, "none", "none")}

LifetimeApply ==
    \E r \in LifetimeRequests, visible \in Visible :
        /\ ApplyTool(r.tool, r.options, r.page, r.image, r.fault, visible)
        /\ trail' = IF resp'.code = "OK" THEN Trail("A", store'.rec, folder')
                     ELSE NoTrail
        /\ body' = Answer
        /\ UNCHANGED <<flight, geom>>
        /\ edits' <= MaxReadEdits

LifetimeNext ==
    \/ Create \/ LifetimeApply \/ Undo \/ Redo \/ DeleteJob \/ Tick
    \/ Status \/ Download \/ PageInfo \/ Preview

LifetimeSpec == Init /\ [][LifetimeNext]_vars

\* Apply, undo and redo requests of a job with up to MaxFlights of them
\* in flight at once.
RaceNext == Create \/ RaceBegin \/ Work \/ Save \/ MoveSave

RaceSpec == Init /\ [][RaceNext]_vars

\* A session at the version limit: the job is edited by one apply after the
\* other while its list is short, and apply, undo and redo requests are in
\* flight together once the list is within one version of MAX_VERSIONS.
LimitApply ==
    \E r \in LifetimeRequests, visible \in Visible :
        /\ ~NearLimit
        /\ NoneInFlight
        /\ ApplyTool(r.tool, r.options, r.page, r.image, r.fault, visible)
        /\ edits' <= MaxLimitEdits
        /\ trail' = NoTrail
        /\ body' = Answer
        /\ UNCHANGED <<flight, geom>>

LimitNext ==
    Create \/ LimitApply \/ LimitBegin \/ LimitWork \/ Save \/ MoveSave

LimitSpec == Init /\ [][LimitNext]_vars

\* The requests over the lifetime of a job, the clock running also while
\* an apply or an undo is between its load_job and its save_job.
SlowNext ==
    \/ Create \/ Tick \/ SlowBegin \/ Work \/ Save \/ MoveSave
    \/ Undo \/ Redo \/ Status \/ Preview

SlowSpec == Init /\ [][SlowNext]_vars

\* An apply or a delete in flight, and the other requests of the job
\* between its steps.
HalfNext ==
    \/ Create \/ HalfBegin \/ Work \/ Save \/ Remove
    \/ LifetimeApply \/ Undo \/ Redo \/ DeleteJob
    \/ Status \/ Download \/ PageInfo \/ Preview

HalfSpec == Init /\ [][HalfNext]_vars

\* The pages whose geometry the overlay tools resolve: a page is drawn at
\* the start and resolved once.
BoxInit ==
    /\ trail = NoTrail
    /\ flight = [p \in Flights |-> Idle]
    /\ now = 0
    /\ store = NoEntry
    /\ folder = NoFolder
    /\ resp = Resp("none", "none")
    /\ body = NoBody
    /\ issued = FALSE
    /\ edits = 0
    /\ geom \in {Unresolved(page) : page \in Pages}

ResolvePage ==
    /\ ~geom.resolved
    /\ geom' = Geom(geom.page, TRUE, safe_page_wh(geom.page),
                    safe_box_xywh(geom.page, TRUE),
                    safe_box_xywh(geom.page, FALSE))
    /\ UNCHANGED <<now, store, folder, resp, body, issued, edits, trail, flight>>

BoxNext == ResolvePage

BoxSpec == BoxInit /\ [][BoxNext]_vars

(***************************************************************************)
(* Properties.                                                             *)
(***************************************************************************)
rec == store.rec
Nums(job) == [i \in 1..Len(job.versions) |-> job.versions[i].v]
Loaded(visible) == LoadCode(StoreGet(visible)) = "ok"
\* the version count once the redo tail is discarded
CountAfterDiscard(job) ==
    IF job.cursor < Len(job.versions) THEN job.cursor ELSE Len(job.versions)
ApplyStep(r, visible) ==
    ApplyTool(r.tool, r.options, r.page, r.image, r.fault, visible)

\* C1: in every reachable state the stored job record has
\* 1 <= cursor <= len(versions): the cursor points at an existing version.
C1_CursorInRange ==
    store.present => 1 <= rec.cursor /\ rec.cursor <= Len(rec.versions)

\* a failed apply, then an undo: the cursor is below the end of the list
C1_Witness ==
    /\ store.present /\ rec.status = "failed"
    /\ resp = Resp("undo", "OK") /\ rec.cursor < Len(rec.versions)

\* C2 as stated: every apply on a loaded job whose version count, the redo
\* tail discarded, has reached MAX_VERSIONS is rejected with the
\* version-limit error and changes neither the record nor the folder.
C2_RejectedWithVersionLimit ==
    [][\A r \in ApplyRequests, visible \in Visible :
          ( /\ CountAfterDiscard(rec) >= MAX_VERSIONS
            /\ Loaded(visible)
            /\ ApplyStep(r, visible) )
          => /\ resp'.code = "VERSION_LIMIT"
             /\ store' = store /\ folder' = folder]_vars

\* C2 amended: such an apply is rejected and changes neither the record nor
\* the folder; the error is the version-limit error when the options parse
\* as JSON and the bad-options error when they do not; and
\* len(versions) <= MAX_VERSIONS in every reachable state.
C2_VersionLimit ==
    /\ [](store.present => Len(rec.versions) <= MAX_VERSIONS)
    /\ [][\A r \in ApplyRequests, visible \in Visible :
            ( /\ CountAfterDiscard(rec) >= MAX_VERSIONS
              /\ Loaded(visible)
              /\ ApplyStep(r, visible) )
            => /\ resp'.code = IF r.options = "badjson" THEN "BAD_OPTIONS"
                               ELSE "VERSION_LIMIT"
               /\ store' = store /\ folder' = folder]_vars

\* an apply was rejected at five versions
C2_Witness ==
    /\ resp = Resp("apply", "VERSION_LIMIT")
    /\ store.present /\ Len(rec.versions) = MAX_VERSIONS

\* C3: in every reachable state the version numbers of the stored record
\* are exactly 1..len(versions), in increasing order.
C3_ContiguousNumbers ==
    store.present => \A i \in 1..Len(rec.versions) : rec.versions[i].v = i

\* a successful apply after an undo: three versions in the record, and the
\* file of a discarded fourth version in the folder
C3_Witness ==
    /\ resp = Resp("apply", "OK") /\ store.present
    /\ Len(rec.versions) = 3 /\ rec.cursor = 3
    /\ Exists(folder.files, version_path(4))

\* C4: a successful apply on versions [1,2,3] with the cursor at 2 yields
\* versions [1,2,4] with cursor 3.
C4_TruncateNumbering ==
    [][\A r \in ApplyRequests, visible \in Visible :
          ( /\ Nums(rec) = <<1, 2, 3>> /\ rec.cursor = 2
            /\ resp' = Resp("apply", "OK")
            /\ Loaded(visible)
            /\ ApplyStep(r, visible) )
          => Nums(store'.rec) = <<1, 2, 4>> /\ store'.rec.cursor = 3]_vars

\* C5: while the job folder stays, no step changes or removes the file of
\* a version of the stored record.
C5_VersionFilesImmutable ==
    [][\A i \in 1..Len(rec.versions) :
          ( /\ store.present
            /\ Exists(folder.files, rec.versions[i].path)
            /\ folder'.exists )
          => /\ Exists(folder'.files, rec.versions[i].path)
             /\ folder'.files[rec.versions[i].path] =
                    folder.files[rec.versions[i].path]]_vars

\* C6: a successful apply issued with cursor < len(versions) leaves the
\* versions up to the cursor, followed by exactly one new version; the
\* cursor is the new last index, the new version's file is the tool's output
\* on the file at the old cursor, and a redo on the new record is a no-op.
C6_TruncateOnEdit ==
    [][\A r \in ApplyRequests, visible \in Visible :
          ( /\ rec.cursor < Len(rec.versions)
            /\ resp' = Resp("apply", "OK")
            /\ Loaded(visible)
            /\ ApplyStep(r, visible) )
          => /\ store'.rec.versions =
                    Append(SubSeq(rec.versions, 1, rec.cursor),
                           store'.rec.versions[rec.cursor + 1])
             /\ store'.rec.cursor = rec.cursor + 1
             /\ store'.rec.cursor = Len(store'.rec.versions)
             /\ folder'.files[active_path(store'.rec)] =
                    Transform(folder.files[active_path(rec)], r.tool)
             /\ RedoJob(store'.rec) = store'.rec]_vars

\* a successful apply from cursor 1 of a longer list: two versions in the
\* record and the file of the discarded third version in the folder
C6_Witness ==
    /\ resp = Resp("apply", "OK") /\ store.present
    /\ Len(rec.versions) = 2 /\ rec.cursor = 2
    /\ Exists(folder.files, version_path(3))

\* C7: an undo or redo on a loaded job moves only the cursor: undo to
\* cursor - 1 when cursor > 1, redo to cursor + 1 when cursor < len(versions),
\* and neither otherwise; the version list, the folder, status, lastTool,
\* lastError and expiresAt stay as they are.
OnlyCursor(c) == store'.present /\ store'.rec = [rec EXCEPT !.cursor = c]

C7_UndoRedoMoveOnlyCursor ==
    [][\A visible \in Visible :
          /\ (Loaded(visible) /\ Move("undo", UndoJob, visible))
                => /\ OnlyCursor(IF rec.cursor > 1 THEN rec.cursor - 1 ELSE rec.cursor)
                   /\ folder' = folder
          /\ (Loaded(visible) /\ Move("redo", RedoJob, visible))
                => /\ OnlyCursor(IF rec.cursor < Len(rec.versions)
                                 THEN rec.cursor + 1 ELSE rec.cursor)
                   /\ folder' = folder]_vars

\* a redo that moved the cursor from 1 to 2 of three versions
C7_Witness ==
    /\ resp = Resp("redo", "OK") /\ store.present
    /\ rec.cursor = 2 /\ Len(rec.versions) = 3

\* C8: after a successful apply, then an undo, then a redo, the stored
\* record (cursor, version list) and every file of the folder are those
\* right after the apply.
C8_UndoRedoRoundTrip ==
    trail.phase = "AUR"
        => /\ store.present /\ rec = trail.rec
           /\ active_version(rec) = active_version(trail.rec)
           /\ folder = trail.fld

\* apply, undo and redo have run in this order
C8_Witness == trail.phase = "AUR" /\ resp = Resp("redo", "OK")

\* C9: a successful create stores a job with status done, cursor 1 and the
\* one version 1, for one upload and for several.
C9_CreateInitial ==
    [][\A files \in AllUploadLists :
          (resp' = Resp("create", "OK") /\ CreateJob(files))
          => /\ Len(files) \in 1..MAX_FILES
             /\ \A i \in 1..Len(files) : UploadCode(files[i]) = "ok"
             /\ store'.present
             /\ store'.rec.status = "done"
             /\ store'.rec.cursor = 1
             /\ store'.rec.versions = <<Version(1)>>
             /\ Exists(folder'.files, version_path(1))]_vars

\* a job created from two uploads
C9_Witness ==
    /\ resp = Resp("create", "OK") /\ store.present
    /\ Len(folder.files[version_path(1)].pages) = Len(DocA) + Len(DocB)

\* C10: version 1 of a created job is the single upload, or the pages of
\* the uploads in input order, whatever the file names of the uploads.
RECURSIVE InputPages(_, _)
InputPages(files, i) ==
    IF i > Len(files) THEN <<>>
    ELSE files[i].data.pages \o InputPages(files, i + 1)

C10_MergeInInputOrder ==
    [][\A files \in AllUploadLists :
          (resp' = Resp("create", "OK") /\ CreateJob(files))
          => /\ folder'.files[version_path(1)].pages = InputPages(files, 1)
             /\ Len(files) = 1 => folder'.files[version_path(1)] = files[1].data]_vars

\* C11: download returns the file of the version at the cursor, and that
\* file is the result of exactly the tools on the history path to it: the
\* first version carries no tool, every later version of the record is its
\* predecessor with one tool applied, a successful apply makes the new
\* active file from the file that was active, and a download of a loaded
\* job serves the active file.
ToolNames == {"rotate", "watermark_text", "watermark_image", "draw_signature"}

HistoryPath ==
    (store.present /\ folder.exists) =>
        \A i \in 1..Len(rec.versions) :
            /\ Exists(folder.files, rec.versions[i].path)
            /\ i = 1 => folder.files[rec.versions[i].path].ops = <<>>
            /\ i > 1 => \E t \in ToolNames :
                           folder.files[rec.versions[i].path] =
                               Transform(folder.files[rec.versions[i - 1].path], t)

C11_DownloadActiveVersion ==
    /\ []HistoryPath
    /\ [][\A r \in ReadRequests, visible \in Visible :
            ( /\ resp' = Resp("apply", "OK")
              /\ Loaded(visible)
              /\ ApplyStep(r, visible) )
            => folder'.files[active_path(store'.rec)] =
                   Transform(folder.files[active_path(rec)], r.tool)]_vars
    /\ [][\A visible \in Visible :
            (Loaded(visible) /\ DownloadJob(visible))
            => /\ resp' = Resp("download", "OK")
               /\ body'.file = folder.files[active_path(rec)]
               /\ store' = store /\ folder' = folder]_vars

\* create, rotate, watermark_text, undo, download: the rotated document
\* without the watermark is served while version 3 carries the watermark
C11_Witness ==
    /\ resp = Resp("download", "OK") /\ store.present
    /\ rec.cursor = 2 /\ Len(rec.versions) = 3
    /\ body.file = Pdf(DocA, <<"rotate">>)
    /\ folder.files[version_path(3)] = Pdf(DocA, <<"rotate", "watermark_text">>)

\* a request of one of the seven operations that load the job
LoadStep(visible) ==
    \/ StatusJob(visible)
    \/ DownloadJob(visible)
    \/ PageInfoJob(visible)
    \/ \E page \in PreviewPages, dpi \in DpiInputs, fault \in RenderFaults :
          PreviewPage(page, dpi, fault, visible)
    \/ \E r \in LifetimeRequests : ApplyStep(r, visible)
    \/ Move("undo", UndoJob, visible)
    \/ Move("redo", RedoJob, visible)

\* C12: a request of status, download, apply, undo, redo, preview or
\* page-info that finds no store entry, or finds one with now >= expiresAt,
\* fails with the not-found or the expired error and returns nothing of the
\* job; with no entry the folder is left as it is, and with an expired
\* entry the entry and the folder are removed.
C12_LoadFailsWhenGoneOrExpired ==
    [][\A visible \in Visible :
          ( /\ ~StoreGet(visible).present \/ now >= StoreGet(visible).rec.expiresAt
            /\ LoadStep(visible) )
          => /\ resp'.code = IF StoreGet(visible).present THEN "JOB_EXPIRED"
                             ELSE "JOB_NOT_FOUND"
             /\ body' = NoBody
             /\ ~store'.present
             /\ StoreGet(visible).present => ~folder'.exists
             /\ ~StoreGet(visible).present => folder' = folder]_vars

\* a preview of an expired job whose entry was still in the store
C12_Witness ==
    /\ resp = Resp("preview", "JOB_EXPIRED")
    /\ ~store.present /\ ~folder.exists /\ now >= TTL_SECONDS

\* C13: when the store has evicted the key of a job, the next request that
\* loads the job removes the job folder.
C13_CleanupAfterEviction ==
    [][\A visible \in Visible :
          ( /\ store.present /\ ~StoreGet(visible).present
            /\ folder.exists
            /\ LoadStep(visible) )
          => ~folder'.exists]_vars

\* C15: delete removes the store entry and the folder whether or not either
\* exists and answers ok; a second delete changes nothing; once the entry
\* and the folder of an issued job id are gone they stay gone, and every
\* request that loads the job fails with not found.
C15_DeleteRemovesBoth ==
    /\ [][DeleteJob => /\ store' = NoEntry /\ folder' = NoFolder
                       /\ resp' = Resp("delete", "OK")]_vars
    /\ [][(DeleteJob /\ resp = Resp("delete", "OK"))
            => store' = store /\ folder' = folder]_vars
    /\ [][(issued /\ ~store.present /\ ~folder.exists)
            => /\ ~store'.present /\ ~folder'.exists
               /\ \A visible \in Visible :
                     LoadStep(visible) => resp'.code = "JOB_NOT_FOUND"]_vars

\* a load after the delete of a job: not found, and nothing on disk
C15_Witness ==
    /\ resp = Resp("download", "JOB_NOT_FOUND")
    /\ issued /\ ~store.present /\ ~folder.exists /\ now < TTL_SECONDS

\* C14 as stated: expiresAt is createdAt + TTL, no request changes it, and
\* every save stores the record with the remaining time expiresAt - now, so
\* the store evicts the key at expiresAt.
C14_TtlNotExtended ==
    /\ [](store.present => /\ rec.expiresAt = rec.createdAt + TTL_SECONDS
                           /\ store.ex = rec.expiresAt)
    /\ [][(store.present /\ store'.present)
            => store'.rec.expiresAt = rec.expiresAt]_vars

\* C14 amended: expiresAt is createdAt + TTL and no request changes it;
\* every save stores the record with the remaining time
\* max(1, expiresAt - now), so the store evicts the key at expiresAt, or,
\* when a request that loaded the job before expiresAt saves at or after
\* it, one second after that save.
C14_TtlFixedWithFloor ==
    /\ [](store.present => /\ rec.expiresAt = rec.createdAt + TTL_SECONDS
                           /\ rec.expiresAt <= store.ex
                           /\ store.ex <= Max(rec.expiresAt, now + 1))
    /\ [][(store.present /\ store'.present)
            => /\ store'.rec.expiresAt = rec.expiresAt
               /\ store'.ex # store.ex => store'.ex = Max(rec.expiresAt, now + 1)]_vars

\* an apply loaded the job before expiresAt and saved it at expiresAt
C14_Witness ==
    /\ resp = Resp("apply", "OK") /\ store.present
    /\ now >= rec.expiresAt /\ store.ex = now + 1

\* C16: nothing keeps two apply requests of a job apart: the save of a
\* successful apply writes the record it loaded, cut at its cursor, plus its
\* own new version, whatever other requests have saved since it loaded, and
\* answers success; so of two applies that loaded the same record and both
\* answer success, one leaves no version in the record.
C16_LostUpdate ==
    [][\A p \in Flights :
          ( /\ flight[p].pc = "saving" /\ flight[p].code = "OK"
            /\ SaveFlight(p) )
          => /\ resp' = Resp("apply", "OK")
             /\ store'.present
             /\ store'.rec.versions =
                    Append(SubSeq(flight[p].base.versions, 1, flight[p].base.cursor),
                           Version(flight[p].base.cursor + 1))
             /\ store'.rec.cursor = flight[p].base.cursor + 1]_vars

\* two applies have loaded the same record and both have answered success:
\* the record holds one new version
C16_Witness ==
    \E p, q \in Flights :
        /\ p # q
        /\ flight[p].pc = "done" /\ flight[p].code = "OK"
        /\ flight[q].pc = "done" /\ flight[q].code = "OK"
        /\ flight[p].base = flight[q].base
        /\ store.present
        /\ Len(rec.versions) = CountAfterDiscard(flight[p].base) + 1

\* the two half-deleted states, as a request sees them: the store entry is
\* gone and the folder remains, or the entry remains and the folder or the
\* file of the active version is gone
EntryGone(visible) == ~StoreGet(visible).present /\ folder.exists
FilesGone(visible) == Loaded(visible) /\ ~ActiveExists(StoreGet(visible).rec)

\* C17: in both half-deleted states every request of status, download,
\* preview, page-info, undo, redo and apply answers not found or result
\* missing.
C17_HalfDeletedIsNotFound ==
    [][\A visible \in Visible :
          ( /\ EntryGone(visible) \/ FilesGone(visible)
            /\ LoadStep(visible) )
          => resp'.code \in {"JOB_NOT_FOUND", "RESULT_MISSING"}]_vars

\* the cache key of a preview request on the stored job
KeyOf(page, dpi) == preview_path(active_version(rec), page, ClampDpi(dpi))

\* C18: a preview that is served shows the active version: a served image
\* is the rendering of the requested page of the file of the active
\* version, and the preview that follows a successful apply is rendered
\* anew.
C18_PreviewNeverStale ==
    [][\A page \in PreviewPages, dpi \in DpiInputs, fault \in RenderFaults,
          visible \in Visible :
          ( /\ resp' = Resp("preview", "OK")
            /\ Loaded(visible)
            /\ PreviewPage(page, dpi, fault, visible) )
          => /\ body'.file.kind = "png"
                  => body'.file = Png(folder.files[active_path(rec)], page,
                                      ClampDpi(dpi))
             /\ resp = Resp("apply", "OK") => body'.rendered]_vars

\* C19: a preview request that follows a served preview of the same page
\* and dpi, with no other request in between, is answered with the same
\* file, without the rasterizer and without a write to the folder; a served
\* preview is the file at its cache key, a request that finds a file at its
\* key serves it as it is, and no request changes a preview file.
C19_PreviewCacheHit ==
    /\ [][\A page \in PreviewPages, dpi \in DpiInputs, fault \in RenderFaults,
            visible \in Visible :
            ( /\ resp' = Resp("preview", "OK")
              /\ Loaded(visible)
              /\ PreviewPage(page, dpi, fault, visible) )
            => /\ Exists(folder'.files, KeyOf(page, dpi))
               /\ body'.file = folder'.files[KeyOf(page, dpi)]
               /\ Exists(folder.files, KeyOf(page, dpi))
                    => /\ ~body'.rendered
                       /\ folder' = folder
               /\ ( /\ resp = Resp("preview", "OK")
                    /\ Exists(folder.files, KeyOf(page, dpi))
                    /\ body.file = folder.files[KeyOf(page, dpi)] )
                    => body'.file = body.file /\ ~body'.rendered]_vars
    /\ [][\A path \in PreviewPaths :
            (folder.exists /\ Exists(folder.files, path) /\ folder'.exists)
            => /\ Exists(folder'.files, path)
               /\ folder'.files[path] = folder.files[path]]_vars

\* a preview served from the cache
C19_Witness ==
    /\ resp = Resp("preview", "OK") /\ ~body.rendered
    /\ body.file.kind = "png" /\ store.present
    /\ body.file = folder.files[preview_path(active_version(rec), 1, 72)]

\* the apply requests that fail validation on the stored job: a merge,
\* options that are no JSON, no object or rejected by the tool's options
\* model, a page outside the document, an image that is missing or too big
FailsValidation(r) ==
    \/ r.tool = "merge"
    \/ r.options \in {"badjson", "nonobject", "invalid"}
    \/ r.tool \in OverlayTools /\ InvalidPage(folder.files[active_path(rec)], r.page)
    \/ r.tool = "watermark_image" /\ r.image \in {"none", "big"}

\* C20: an apply that fails validation answers a 4xx validation error and
\* leaves the stored record exactly as it was.
C20_ValidationKeepsRecord ==
    [][\A r \in ApplyRequests, visible \in Visible :
          ( /\ Loaded(visible)
            /\ FailsValidation(r)
            /\ ApplyStep(r, visible) )
          => /\ resp'.code \in {"BAD_OPTIONS", "NO_IMAGE", "FILE_TOO_LARGE",
                                "VERSION_LIMIT"}
             /\ store' = store]_vars

\* an apply request whose tool call meets an error of the environment: the
\* request is well formed and the version limit is not reached
ProcessingFails(r) ==
    /\ r.fault # "none" /\ r.options = "ok" /\ r.tool # "merge"
    /\ r.image = ImageOf(r.tool)
    /\ ~(r.tool \in OverlayTools /\ InvalidPage(folder.files[active_path(rec)], r.page))
    /\ ~VersionLimitReached(TruncateRedoTail(rec))

\* C21: an apply whose tool call fails answers the 500 processing failure
\* and stores the record with status failed, lastTool the tool and lastError
\* the error; the job stays in the store and loadable, its folder and the
\* file of its active version stay, and its cursor and active version are
\* those before the call.
C21_FailureRecorded ==
    [][\A r \in ApplyRequests, visible \in Visible :
          ( /\ Loaded(visible)
            /\ ProcessingFails(r)
            /\ ApplyStep(r, visible) )
          => /\ resp' = Resp("apply", "PROCESSING_FAILED")
             /\ store'.present /\ LoadCode(store') = "ok" /\ now < store'.ex
             /\ store'.rec.status = "failed"
             /\ store'.rec.lastTool = r.tool
             /\ store'.rec.lastError =
                    (IF r.fault = "read" THEN "RenderError" ELSE "OSError")
             /\ store'.rec.cursor = rec.cursor
             /\ active_version(store'.rec) = active_version(rec)
             /\ store'.rec.expiresAt = rec.expiresAt
             /\ folder'.exists
             /\ Exists(folder'.files, active_path(rec))
             /\ folder'.files[active_path(rec)] = folder.files[active_path(rec)]]_vars

\* a rotation failed while it wrote its output, with the cursor at version 2
C21_Witness ==
    /\ resp = Resp("apply", "PROCESSING_FAILED") /\ store.present
    /\ rec.status = "failed" /\ rec.lastTool = "rotate"
    /\ rec.lastError = "OSError" /\ rec.cursor = 2
    /\ folder.files[version_path(3)] = Partial

\* C22: a preview whose rasterizer fails (non-zero exit, timeout, output
\* not made) answers the preview-failed error, and the failure is recorded
\* in the stored record (status failed, lastError set), the job staying in
\* the store.
C22_PreviewFailureRecorded ==
    [][\A page \in PreviewPages, dpi \in DpiInputs, fault \in RenderFaults,
          visible \in Visible :
          ( /\ Loaded(visible)
            /\ fault # "none"
            /\ ActiveExists(rec)
            /\ ReadCode(folder, active_path(rec)) = "ok"
            /\ page >= 1 /\ page <= Len(folder.files[active_path(rec)].pages)
            /\ ~Exists(folder.files, KeyOf(page, dpi))
            /\ PreviewPage(page, dpi, fault, visible) )
          => /\ resp' = Resp("preview", "PREVIEW_FAILED")
             /\ store'.present
             /\ store'.rec.status = "failed"
             /\ store'.rec.lastError # "none"]_vars

\* C23: an apply of an overlay tool with well-formed options, on a job
\* below the version limit: a page below 1 or above the page count is
\* rejected as a validation error with no file of the folder touched and no
\* new version; a page within the document succeeds and adds exactly one
\* version.
C23_PageBounds ==
    [][\A r \in ApplyRequests, visible \in Visible :
          ( /\ Loaded(visible)
            /\ r.tool \in OverlayTools
            /\ r.options = "ok" /\ r.fault = "none" /\ r.image = ImageOf(r.tool)
            /\ ~VersionLimitReached(TruncateRedoTail(rec))
            /\ ApplyStep(r, visible) )
          => IF InvalidPage(folder.files[active_path(rec)], r.page)
             THEN /\ resp' = Resp("apply", "BAD_OPTIONS")
                  /\ folder' = folder
                  /\ store' = store
             ELSE /\ resp' = Resp("apply", "OK")
                  /\ Len(store'.rec.versions) = CountAfterDiscard(rec) + 1
                  /\ Exists(folder'.files, active_path(store'.rec))]_vars

\* the paths of the uploaded side inputs
SidePaths == {side_path(k) : k \in 1..(MaxSideFiles + 1)}

\* C24: a successful apply makes the new version from the file of the
\* version at the cursor at the time of the call, which after an undo is
\* the version undone to and not the last of the list; the new version is
\* the only one added, and no version of a stored record is an uploaded
\* side input.
C24_InputIsActiveVersion ==
    /\ [](store.present =>
            \A i \in 1..Len(rec.versions) :
                /\ rec.versions[i].path \notin SidePaths
                /\ rec.versions[i].path = version_path(rec.versions[i].v)
                /\ folder.files[rec.versions[i].path].kind = "pdf")
    /\ [][\A r \in ApplyRequests, visible \in Visible :
            ( /\ resp' = Resp("apply", "OK")
              /\ Loaded(visible)
              /\ ApplyStep(r, visible) )
            => /\ folder'.files[active_path(store'.rec)] =
                      [kind |-> "pdf",
                       pages |-> folder.files[rec.versions[rec.cursor].path].pages,
                       ops |-> Append(folder.files[rec.versions[rec.cursor].path].ops,
                                      r.tool)]
               /\ active_path(store'.rec) \notin SidePaths
               /\ Len(store'.rec.versions) = rec.cursor + 1
               /\ r.tool = "watermark_image"
                    => \E path \in SidePaths :
                          /\ ~Exists(folder.files, path)
                          /\ Exists(folder'.files, path)
                          /\ folder'.files[path] = Img]_vars

\* an image watermark applied after two rotations and two undos: version 2
\* is the first version with the watermark and not the last version of the
\* list, whose file is still there; the image is in the folder and in no
\* version
C24_Witness ==
    /\ resp = Resp("apply", "OK") /\ store.present
    /\ rec.lastTool = "watermark_image"
    /\ rec.cursor = 2 /\ Len(rec.versions) = 2
    /\ folder.files[version_path(2)] = Pdf(DocA, <<"watermark_image">>)
    /\ Exists(folder.files, version_path(3))
    /\ folder.files[version_path(3)] = Pdf(DocA, <<"rotate", "rotate">>)
    /\ Exists(folder.files, side_path(1))

\* C25: an apply whose options are rejected (no JSON, no object, or
\* refused by the options model of the tool) has written no file into the
\* job folder: no output version and no uploaded side input.
C25_ValidationBeforeIO ==
    [][\A r \in ApplyRequests, visible \in Visible :
          ( /\ Loaded(visible)
            /\ r.options \in {"badjson", "nonobject", "invalid"}
            /\ ApplyStep(r, visible) )
          => folder' = folder]_vars

\* a box that is present and valid: an array of four numbers with a
\* positive width and height, and its dimensions
ValidBox(box) ==
    /\ box.kind = "array" /\ Len(box.arr) = 4
    /\ \A i \in 1..4 : box.arr[i].numeric
    /\ box.arr[3].val # box.arr[1].val
    /\ box.arr[4].val # box.arr[2].val
Dims(box) ==
    <<Abs(box.arr[3].val - box.arr[1].val), Abs(box.arr[4].val - box.arr[2].val)>>

\* C26: the page size resolved for a page is that of its crop box when the
\* crop box is present and valid, otherwise that of its media box when the
\* media box is valid, otherwise 595 x 842; the resolvers never raise.
C26_PageBoxPreference ==
    geom.resolved =>
        LET claimed == IF ValidBox(geom.page.CropBox)
                       THEN Dims(geom.page.CropBox)
                       ELSE IF ValidBox(geom.page.MediaBox)
                            THEN Dims(geom.page.MediaBox)
                            ELSE <<595, 842>>
        IN  /\ geom.wh = claimed
            /\ <<geom.crop[3], geom.crop[4]>> = claimed

\* the invariants of a job record
WellFormed(job) ==
    /\ 1 <= job.cursor /\ job.cursor <= Len(job.versions)
    /\ Len(job.versions) <= MAX_VERSIONS
    /\ \A i \in 1..Len(job.versions) : job.versions[i].v = i

\* C27: with apply, undo and redo requests of a job in flight together,
\* the load and the save of each a separate step, every record in the store
\* has 1 <= cursor <= len(versions) <= MAX_VERSIONS and the version numbers
\* 1..len(versions), and so has every record a handler holds between its
\* load and its save; a save writes the record of its handler whole.
C27_InvariantsSurviveRaces ==
    /\ [](store.present => WellFormed(rec))
    /\ [](\A p \in Flights :
             flight[p].pc \in {"loaded", "saving"}
                 => WellFormed(flight[p].job) /\ WellFormed(flight[p].base))
    /\ [][\A p \in Flights :
             (flight[p].pc = "saving" /\ SaveFlight(p))
             => store'.rec = flight[p].job]_vars
    /\ [][\A p \in Flights :
             (flight[p].pc = "loaded" /\ MoveFlight(p) /\ store' # store)
             => store'.rec = [flight[p].base EXCEPT !.cursor = store'.rec.cursor]]_vars

\* at the limit: an apply that loaded four versions is about to save the
\* five versions another apply from the same record has saved, while the
\* store has moved on: an undo has taken the cursor back
C27_Witness ==
    \E p \in Flights :
        /\ flight[p].pc = "saving" /\ flight[p].code = "OK"
        /\ Len(flight[p].base.versions) = MAX_VERSIONS - 1
        /\ store.present
        /\ rec.versions = flight[p].job.versions
        /\ Len(rec.versions) = MAX_VERSIONS
        /\ rec.cursor < flight[p].job.cursor

\* C28: the stored status is failed exactly when the last apply attempt
\* ended in a processing failure, that is when lastError is set; a
\* successful apply, also one after a failed apply, stores status done and
\* no lastError.
C28_StatusFollowsLastApply ==
    /\ [](store.present => (rec.status = "failed" <=> rec.lastError # "none"))
    /\ [][\A r \in ApplyRequests, visible \in Visible :
            ( /\ resp' = Resp("apply", "OK")
              /\ Loaded(visible)
              /\ ApplyStep(r, visible) )
            => /\ store'.rec.status = "done"
               /\ store'.rec.lastError = "none"]_vars

\* C29: an apply issued with cursor < len(versions) that ends in a
\* processing failure leaves the stored version list and cursor as they
\* were, so the redo that follows reaches the version after the cursor.
C29_FailedApplyKeepsRedo ==
    [][\A r \in ApplyRequests, visible \in Visible :
          ( /\ rec.cursor < Len(rec.versions)
            /\ resp' = Resp("apply", "PROCESSING_FAILED")
            /\ Loaded(visible)
            /\ ApplyStep(r, visible) )
          => /\ store'.rec.versions = rec.versions
             /\ store'.rec.cursor = rec.cursor
             /\ RedoJob(store'.rec).cursor = rec.cursor + 1]_vars

\* C30: once a delete of the job has completed (the store entry and the
\* folder are gone), no step makes a store entry of the job again, and a
\* stored record never names version files of a folder that is gone.
C30_DeleteIsFinal ==
    /\ [][(issued /\ ~store.present /\ ~folder.exists) => ~store'.present]_vars
    /\ [](store.present =>
             /\ folder.exists
             /\ \A i \in 1..Len(rec.versions) :
                   Exists(folder.files, rec.versions[i].path))
====
